---- MODULE Spec2Model ----
(***************************************************************************)
(* A model of scripts/backup.py: the mirror reconciliation                 *)
(* (cleanup_removed_entries), the per-repository change detector           *)
(* (_sync_git_repo), the snapshot scheduler (has_unbundled_commits,        *)
(* should_force_bundle, main) and the retention policy                     *)
(* (retention_cleanup).                                                    *)
(*                                                                         *)
(* Strings are sequences of symbols.  A symbol is one character ("a", "/", *)
(* "7") or a word that the program only ever handles whole ("bundle",      *)
(* "work-backup-").  No word is a prefix of another symbol, so comparing   *)
(* two such sequences symbol by symbol orders them as Python orders the    *)
(* strings character by character.                                         *)
(***************************************************************************)
EXTENDS Integers, Sequences, FiniteSets, TLC

VARIABLES
    today,        \* date.today() / datetime.now(), as a proleptic ordinal
    bundle_dir,   \* the artifact directory: file name -> content
    to_delete,    \* retention_cleanup: the local list to_delete, as a set
    ret_mode,     \* the retention_cleanup calls on this directory so far: "none", last one
                  \* "dry", last one "real", or the last two "real" ("real_again")
    entries,      \* the validated entries of backup-config.json, in order
    mirror,       \* the tree at <backup_repo>/__root__: path -> node
    removed,      \* cleanup_removed_entries: the list removed, as a set
    clean_mode,   \* the cleanup_removed_entries calls on this tree so far, as ret_mode
    sources,      \* the file system outside the backup repo: source path -> what is there
    git_call,     \* _sync_git_repo: its last call (arguments, locals, return value)
    pc,           \* main: where the run is
    args,         \* main: args.dry_run, args.commit_only
    bundle_dir_set, \* main: whether the configuration names a bundleDir
    head,         \* HEAD of the backup repo, "none" when `git rev-parse HEAD` fails
    idx,          \* the loops over entries: the index of the entry at hand
    failed_paths, \* main: failed_paths
    sync_failed,  \* main: sync_failed
    decision,     \* main: unbundled and force
    exit_code,    \* the exit status of the run: "none" while it runs, then "0" or "1"
    runs,         \* runs started so far
    visited       \* the entries that the loops of run_pre_sync_commands ("pre") and
                  \* sync_entries ("sync") have taken up in this run

retVars == <<today, bundle_dir, to_delete, ret_mode>>

cleanVars == <<removed, clean_mode>>

treeVars == <<entries, mirror>>

gitVars == <<sources, git_call>>

mainVars == <<pc, args, bundle_dir_set, head, idx, failed_paths, sync_failed, decision,
              exit_code, runs, visited>>

vars == <<today, bundle_dir, to_delete, ret_mode, entries, mirror, removed, clean_mode,
          sources, git_call, pc, args, bundle_dir_set, head, idx, failed_paths, sync_failed,
          decision, exit_code, runs, visited>>

(***************************************************************************)
(* Bounds of the model.                                                    *)
(***************************************************************************)
MaxArtifacts == 3

MaxEntries == 2

MaxRuns == 1

\* the runs of a sequence of scheduled runs
MaxScheduledRuns == 12

(***************************************************************************)
(* datetime.date: ordinals, civil dates, ISO calendar.                     *)
(***************************************************************************)
IsLeap(y) == y % 4 = 0 /\ (y % 100 # 0 \/ y % 400 = 0)

DaysInMonth(y, m) ==
    IF m = 2 THEN (IF IsLeap(y) THEN 29 ELSE 28)
    ELSE IF m \in {4, 6, 9, 11} THEN 30 ELSE 31

DaysBeforeYear(y) ==
    LET p == y - 1 IN p * 365 + (p \div 4) - (p \div 100) + (p \div 400)

DaysBeforeMonth(y, m) ==
    <<0, 31, 59, 90, 120, 151, 181, 212, 243, 273, 304, 334>>[m]
        + (IF m > 2 /\ IsLeap(y) THEN 1 ELSE 0)

\* date(y, m, d).toordinal()
Ymd2Ord(y, m, d) == DaysBeforeYear(y) + DaysBeforeMonth(y, m) + d

\* date.fromordinal(n) as <<year, month, day>>
Ord2Ymd(n) ==
    LET n0   == n - 1
        n400 == n0 \div 146097
        r400 == n0 % 146097
        n100 == r400 \div 36524
        r100 == r400 % 36524
        n4   == r100 \div 1461
        r4   == r100 % 1461
        n1   == r4 \div 365
        r1   == r4 % 365
        year == n400 * 400 + 1 + n100 * 100 + n4 * 4 + n1
    IN  IF n1 = 4 \/ n100 = 4 THEN <<year - 1, 12, 31>>
        ELSE LET m0 == CHOOSE m \in 1..12 :
                          /\ DaysBeforeMonth(year, m) <= r1
                          /\ r1 < DaysBeforeMonth(year, m) + DaysInMonth(year, m)
             IN  <<year, m0, r1 - DaysBeforeMonth(year, m0) + 1>>

\* Monday of ISO week 1 of a year, as an ordinal
IsoWeek1Monday(y) ==
    LET firstday     == Ymd2Ord(y, 1, 1)
        firstweekday == (firstday + 6) % 7
        monday       == firstday - firstweekday
    IN  IF firstweekday > 3 THEN monday + 7 ELSE monday

\* d.isocalendar()[:2] for the date with ordinal n: <<ISO year, ISO week>>
IsoCalendar(n) ==
    LET y   == Ord2Ymd(n)[1]
        wk0 == IsoWeek1Monday(y)
    IN  IF n < wk0
        THEN <<y - 1, ((n - IsoWeek1Monday(y - 1)) \div 7) + 1>>
        ELSE IF (n - wk0) \div 7 >= 52 /\ n >= IsoWeek1Monday(y + 1)
             THEN <<y + 1, 1>>
             ELSE <<y, ((n - wk0) \div 7) + 1>>

(***************************************************************************)
(* Strings: formatting, parsing, ordering, glob and regular expression.    *)
(***************************************************************************)
Digits == <<"0", "1", "2", "3", "4", "5", "6", "7", "8", "9">>

IsDigit(c) == \E i \in 1..10 : Digits[i] = c

DigitVal(c) == (CHOOSE i \in 1..10 : Digits[i] = c) - 1

\* the symbols of file names, in the order of their first characters
SymbolOrder ==
    <<"-", ".", "0", "1", "2", "3", "4", "5", "6", "7", "8", "9",
      "bak", "bundle", "notes", "old", "skipped", "txt", "work-backup-">>

Rank(c) == CHOOSE i \in 1..Len(SymbolOrder) : SymbolOrder[i] = c

\* s < t for Python strings
RECURSIVE StrLess(_, _)
StrLess(s, t) ==
    IF t = <<>> THEN FALSE
    ELSE IF s = <<>> THEN TRUE
    ELSE IF Head(s) = Head(t) THEN StrLess(Tail(s), Tail(t))
    ELSE Rank(Head(s)) < Rank(Head(t))

\* sorted(S) for a set of strings
RECURSIVE Sorted(_)
Sorted(S) ==
    IF S = {} THEN <<>>
    ELSE LET least == CHOOSE s \in S : \A t \in S \ {s} : StrLess(s, t)
         IN  <<least>> \o Sorted(S \ {least})

Fmt2(n) == <<Digits[(n \div 10) + 1], Digits[(n % 10) + 1]>>

Fmt4(n) == Fmt2(n \div 100) \o Fmt2(n % 100)

\* datetime.now().strftime('%Y-%m-%d')
Strftime(n) ==
    LET ymd == Ord2Ymd(n)
    IN  Fmt4(ymd[1]) \o <<"-">> \o Fmt2(ymd[2]) \o <<"-">> \o Fmt2(ymd[3])

Num(s) ==
    IF Len(s) = 2 THEN DigitVal(s[1]) * 10 + DigitVal(s[2])
    ELSE DigitVal(s[1]) * 1000 + DigitVal(s[2]) * 100 + DigitVal(s[3]) * 10 + DigitVal(s[4])

\* date.fromisoformat(s) for s = YYYY-MM-DD, as an ordinal
FromIsoFormat(s) ==
    Ymd2Ord(Num(SubSeq(s, 1, 4)), Num(SubSeq(s, 6, 7)), Num(SubSeq(s, 9, 10)))

BundleFileName(n) == <<"work-backup-">> \o Strftime(n) \o <<".", "bundle">>

SkippedFileName(n) == <<"work-backup-">> \o Strftime(n) \o <<".", "skipped">>

EndsWith(s, suffix) ==
    /\ Len(s) >= Len(suffix)
    /\ SubSeq(s, Len(s) - Len(suffix) + 1, Len(s)) = suffix

StartsWith(s, prefix) ==
    /\ Len(s) >= Len(prefix)
    /\ SubSeq(s, 1, Len(prefix)) = prefix

\* BUNDLE_RE.match(name): ^work-backup-(\d{4}-\d{2}-\d{2})\.(bundle|skipped)$
BUNDLE_RE(name) ==
    /\ Len(name) = 13
    /\ name[1] = "work-backup-"
    /\ \A i \in {2, 3, 4, 5, 7, 8, 10, 11} : IsDigit(name[i])
    /\ name[6] = "-" /\ name[9] = "-"
    /\ name[12] = "."
    /\ name[13] \in {"bundle", "skipped"}

\* m.group(1) of a match
Group1(name) == SubSeq(name, 2, 11)

\* glob "work-backup-*.*" over the names of a directory
GlobAll(dir) ==
    {f \in DOMAIN dir : f[1] = "work-backup-" /\ \E i \in 2..Len(f) : f[i] = "."}

\* glob "work-backup-*.bundle" over the names of a directory
GlobBundles(dir) ==
    {f \in DOMAIN dir : f[1] = "work-backup-" /\ EndsWith(f, <<".", "bundle">>)}

(***************************************************************************)
(* File contents.  What the program reads of a file is the result of       *)
(* `git bundle list-heads`: an exit status and the lines printed, each     *)
(* line a sequence of whitespace-separated words.                          *)
(***************************************************************************)
NoHeads == [ok |-> FALSE, out |-> <<>>]

HeadsOf(h) == [ok |-> TRUE, out |-> << <<h, "HEAD">>, <<h, "refs/heads/main">> >>]

\* an optional value: None, or Some(v)
None == [some |-> FALSE, v |-> {}]

Some(v) == [some |-> TRUE, v |-> v]

\* _sync_git_repo not called yet
NoCall ==
    [dry_run |-> FALSE, outcome |-> "none", failed |-> FALSE,
     repo_refs |-> None, bundle_refs |-> None]

\* main not started
NoRun ==
    /\ pc = "idle"
    /\ args = [dry_run |-> FALSE, commit_only |-> FALSE]
    /\ bundle_dir_set = TRUE
    /\ head = "none"
    /\ idx = 1
    /\ failed_paths = {}
    /\ sync_failed = {}
    /\ decision = [unbundled |-> FALSE, force |-> FALSE]
    /\ exit_code = "none"
    /\ runs = 0
    /\ visited = {}

\* dir with the files of S removed
Remove(dir, S) == [f \in DOMAIN dir \ S |-> dir[f]]

\* dir with file f written
WriteFile(dir, f, data) == [g \in DOMAIN dir \cup {f} |-> IF g = f THEN data ELSE dir[g]]

\* which calls of an operation a directory has seen, after one more
ModeAfter(mode, dry_run) ==
    IF dry_run THEN "dry"
    ELSE IF mode \in {"real", "real_again"} THEN "real_again"
    ELSE "real"

(***************************************************************************)
(* retention_cleanup                                                       *)
(***************************************************************************)
\* the list bundles: <<path, date>> for each matching name, in sorted order
Bundles(dir) ==
    LET paths == Sorted({f \in GlobAll(dir) : BUNDLE_RE(f)})
    IN  [i \in 1..Len(paths) |-> <<paths[i], FromIsoFormat(Group1(paths[i]))>>]

Age(now, d) == now - d

\* 30 mistyped as 3
TierTypo(age) ==
    IF age <= 3 THEN "daily"
    ELSE IF age <= 89 THEN "weekly"
    ELSE IF age <= 364 THEN "monthly"
    ELSE "expired"

\* the last tier one day too long
TierOffByOne(age) ==
    IF age <= 30 THEN "daily"
    ELSE IF age <= 89 THEN "weekly"
    ELSE IF age <= 365 THEN "monthly"
    ELSE "expired"

Tier(age) ==
    IF age <= 30 THEN "daily"
    ELSE IF age <= 89 THEN "weekly"
    ELSE IF age <= 364 THEN "monthly"
    ELSE "expired"

WeekKey(d) == IsoCalendar(d)

MonthKey(d) == <<Ord2Ymd(d)[1], Ord2Ymd(d)[2]>>

\* the earliest of a bucket wins
ReplacesEarliest(d, kept) == d < kept[2]

\* the test that lets a later list element replace the bucket's current entry
Replaces(d, kept) == d > kept[2]

\* weekly_kept / monthly_kept after the first i elements of bundles, as a
\* function from the keys seen to <<path, date>>
RECURSIVE KeptInTier(_, _, _, _)
KeptInTier(bundles, now, tier, i) ==
    IF i = 0 THEN <<>>
    ELSE LET before == KeptInTier(bundles, now, tier, i - 1)
             path   == bundles[i][1]
             d      == bundles[i][2]
             key    == IF tier = "weekly" THEN WeekKey(d) ELSE MonthKey(d)
             seen   == {j \in 1..Len(before) : before[j][1] = key}
         IN  IF Tier(Age(now, d)) # tier THEN before
             ELSE IF seen = {} THEN Append(before, <<key, <<path, d>>>>)
             ELSE LET j == CHOOSE k \in seen : TRUE
                  IN  IF Replaces(d, before[j][2])
                      THEN [before EXCEPT ![j] = <<key, <<path, d>>>>]
                      ELSE before

\* the set keep when the loops are done
Keep(dir, now) ==
    LET bundles == Bundles(dir)
        weekly  == KeptInTier(bundles, now, "weekly", Len(bundles))
        monthly == KeptInTier(bundles, now, "monthly", Len(bundles))
    IN  {bundles[i][1] : i \in {j \in 1..Len(bundles) : Tier(Age(now, bundles[j][2])) = "daily"}}
        \cup {weekly[i][2][1] : i \in 1..Len(weekly)}
        \cup {monthly[i][2][1] : i \in 1..Len(monthly)}

\* the membership test inverted
ToDeleteInverted(dir, now) ==
    LET bundles == Bundles(dir)
        keep    == Keep(dir, now)
    IN  {bundles[i][1] : i \in 1..Len(bundles)} \cap keep

ToDelete(dir, now) ==
    LET bundles == Bundles(dir)
        keep    == Keep(dir, now)
    IN  {bundles[i][1] : i \in 1..Len(bundles)} \ keep

\* the paths the deletion loop removes of the list to_delete when os.remove
\* raises for the paths of failing: the loop goes through the list in the
\* order of bundles and nothing catches the exception, so it removes those
\* before the first path that fails
Deleted(list, failing) ==
    LET bad == {i \in 1..Len(list) : list[i] \in failing}
    IN  IF bad = {} THEN {list[i] : i \in 1..Len(list)}
        ELSE {list[i] : i \in 1..((CHOOSE i \in bad : \A j \in bad : i <= j) - 1)}

\* os.remove fails for no path or for one path of to_delete; a dry run
\* does not call it
Failing(paths, dry_run) == IF dry_run THEN {{}} ELSE {{}} \cup {{f} : f \in paths}

\* the directory that retention_cleanup(bundle_dir, dry_run) leaves
AfterRetention(dir, paths, dry_run, failing) ==
    IF dry_run THEN dir ELSE Remove(dir, Deleted(Sorted(paths), failing))

\* ret_mode is "raised" after a call that an exception of os.remove ended
retention_cleanup(dry_run) ==
    /\ to_delete' = ToDelete(bundle_dir, today)
    /\ \E failing \in Failing(to_delete', dry_run) :
          /\ bundle_dir' = AfterRetention(bundle_dir, to_delete', dry_run, failing)
          /\ ret_mode' = IF failing # {} THEN "raised" ELSE ModeAfter(ret_mode, dry_run)
    /\ UNCHANGED today

(***************************************************************************)
(* Retention on its own: any directory that earlier runs may have left,    *)
(* on any of a few days.                                                   *)
(***************************************************************************)
\* 2024-01-31 (a Wednesday), 2024-02-02 (a Friday), 2024-12-30 (ISO week 1 of 2025)
Todays == {738916, 738918, 739250}

Ages == {0, 30, 31, 40, 45, 89, 90, 95, 100, 364, 365}

\* the ages at which the directory may also hold a skip-marker
SkippedAges == {0, 40, 100, 365}

JunkNames ==
    { <<"work-backup-", "old", ".", "bundle">>,
      <<"notes", ".", "txt">> }

Heads == {"h1", "h2"}

\* the files a directory may hold on day now: dated artifacts and stray files
CandidateFiles(now) ==
    {BundleFileName(now - a) : a \in Ages}
        \cup {SkippedFileName(now - a) : a \in SkippedAges}
        \cup JunkNames

ContentOf(f) == IF EndsWith(f, <<".", "bundle">>) THEN HeadsOf("h1") ELSE NoHeads

DirOf(S) == [f \in S |-> ContentOf(f)]

\* a bundle for each of the 31 days ending on day now
DailyDir(now) == DirOf({BundleFileName(now - a) : a \in 0..30})

\* the subsets of S of at most k elements
RECURSIVE SubsetsUpTo(_, _)
SubsetsUpTo(S, k) ==
    IF k = 0 THEN {{}}
    ELSE LET smaller == SubsetsUpTo(S, k - 1)
         IN  smaller \cup {T \cup {x} : T \in smaller, x \in S}

RetInit ==
    /\ today \in Todays
    /\ \/ \E S \in SubsetsUpTo(CandidateFiles(today), MaxArtifacts) : bundle_dir = DirOf(S)
       \/ bundle_dir = DailyDir(today)
    /\ to_delete = {}
    /\ ret_mode = "none"
    /\ entries = <<>>
    /\ mirror = <<>>
    /\ removed = {}
    /\ clean_mode = "none"
    /\ sources = <<>>
    /\ git_call = NoCall
    /\ NoRun

RetNext ==
    \E dry_run \in BOOLEAN :
        retention_cleanup(dry_run) /\ UNCHANGED <<cleanVars, treeVars, gitVars, mainVars>>

SpecRetention == RetInit /\ [][RetNext]_vars

(***************************************************************************)
(* Paths.  "R" stands for the string <backup_repo>/__root__, which main    *)
(* makes absolute and which therefore ends in no separator.                *)
(***************************************************************************)
RECURSIVE LStrip(_)
\* s.lstrip("/")
LStrip(s) == IF s # <<>> /\ Head(s) = "/" THEN LStrip(Tail(s)) ELSE s

RECURSIVE RStrip(_)
\* s.rstrip("/")
RStrip(s) ==
    IF s # <<>> /\ s[Len(s)] = "/" THEN RStrip(SubSeq(s, 1, Len(s) - 1)) ELSE s

root_dir == <<"R">>

\* os.path.join(a, b) for a relative b
Join(a, b) == IF a # <<>> /\ a[Len(a)] = "/" THEN a \o b ELSE a \o <<"/">> \o b

dest_path(src_path) == Join(root_dir, LStrip(src_path))

\* the destination that _sync_git_repo and cleanup_removed_entries give an entry
EntryDest(entry) ==
    IF entry.type = "git-repo"
    THEN dest_path(entry.path) \o <<".bundle">>
    ELSE dest_path(entry.path)

(***************************************************************************)
(* The mirror tree.  A node is a file, a directory or a symbolic link; a   *)
(* file carries what `git bundle list-heads` says of it.                   *)
(***************************************************************************)
Node(kind, data) == [kind |-> kind, data |-> data]

\* os.listdir(dir_path), each name joined to dir_path
Children(tree, dir_path) ==
    {p \in DOMAIN tree :
        /\ StartsWith(p, Join(dir_path, <<>>))
        /\ Len(p) > Len(Join(dir_path, <<>>))
        /\ \A i \in (Len(Join(dir_path, <<>>)) + 1)..Len(p) : p[i] # "/"}

\* rmtree removes the directory itself too; this one only empties it
RmTreeContentsOnly(tree, full) ==
    [p \in {q \in DOMAIN tree : ~StartsWith(q, full \o <<"/">>)} |-> tree[p]]

\* os.remove(full) of a file or link, shutil.rmtree(full) of a directory
RmTree(tree, full) ==
    [p \in {q \in DOMAIN tree : q # full /\ ~StartsWith(q, full \o <<"/">>)} |-> tree[p]]

RECURSIVE RmAll(_, _)
RmAll(tree, S) ==
    IF S = {} THEN tree
    ELSE LET full == CHOOSE q \in S : TRUE
         IN  RmAll(RmTree(tree, full), S \ {full})

(***************************************************************************)
(* cleanup_removed_entries                                                 *)
(***************************************************************************)
\* the set expected
Expected(es) == {EntryDest(es[i]) : i \in 1..Len(es)}

\* the separator forgotten: any string prefix counts
IsAncestorNoSeparator(path, expected) ==
    \E e \in expected : StartsWith(e, RStrip(path))

_is_ancestor(path, expected) ==
    \E e \in expected : StartsWith(e, RStrip(path) \o <<"/">>)

\* the paths inside an expected directory forgotten
IsCoveredNoDescendants(path, expected) ==
    \/ path \in expected
    \/ _is_ancestor(path, expected)

_is_covered(path, expected) ==
    \/ path \in expected
    \/ _is_ancestor(path, expected)
    \/ \E e \in expected : StartsWith(path, RStrip(e) \o <<"/">>)

\* what _cleanup_dir(dir_path, expected, dry_run, removed) appends to removed.
\* Removing one child changes nothing that the loop reads of another, so the
\* order in which os.listdir gives the names does not matter.
RECURSIVE _cleanup_dir(_, _, _)
_cleanup_dir(tree, dir_path, expected) ==
    UNION { IF _is_covered(full, expected)
            THEN IF tree[full].kind = "dir" /\ _is_ancestor(full, expected)
                 THEN _cleanup_dir(tree, full, expected)
                 ELSE {}
            ELSE {full}
          : full \in Children(tree, dir_path) }

\* the list that cleanup_removed_entries returns, as a set
Removed(tree, es) ==
    IF root_dir \notin DOMAIN tree
    THEN {}
    ELSE _cleanup_dir(tree, root_dir, Expected(es))

\* dry_run not looked at: the deletions are made in every mode
AfterCleanupAlways(tree, es, dry_run) == RmAll(tree, Removed(tree, es))

\* the tree that cleanup_removed_entries leaves
AfterCleanup(tree, es, dry_run) ==
    IF dry_run THEN tree ELSE RmAll(tree, Removed(tree, es))

cleanup_removed_entries(dry_run) ==
    /\ removed' = Removed(mirror, entries)
    /\ mirror' = AfterCleanup(mirror, entries, dry_run)
    /\ clean_mode' = ModeAfter(clean_mode, dry_run)
    /\ UNCHANGED entries

(***************************************************************************)
(* Reconciliation on its own: any small configuration, any small tree.     *)
(***************************************************************************)
Path(names) == <<"R">> \o names

\* the entries a configuration may hold, in the order it holds them
CandidateEntries ==
    << [path |-> <<"/", "a">>,               type |-> "plain", pre |-> FALSE],
       [path |-> <<"/", "a">>,               type |-> "git-repo", pre |-> FALSE],
       [path |-> <<"/", "a", "/", "b">>,      type |-> "plain", pre |-> FALSE],
       [path |-> <<"/", "a", "/", "b", "/">>, type |-> "plain", pre |-> FALSE],
       [path |-> <<"a">>,                    type |-> "plain", pre |-> FALSE],
       [path |-> <<"/", "a", ".bundle">>,     type |-> "plain", pre |-> FALSE],
       [path |-> <<"/", "x">>,               type |-> "plain", pre |-> FALSE] >>

RECURSIVE Pick(_, _)
\* the elements of a sequence at the indices of I, in order
Pick(seq, I) ==
    IF I = {} THEN <<>>
    ELSE LET least == CHOOSE i \in I : \A j \in I : i <= j
         IN  <<seq[least]>> \o Pick(seq, I \ {least})

Configurations ==
    {Pick(CandidateEntries, I) : I \in SubsetsUpTo(1..Len(CandidateEntries), MaxEntries)}

\* the paths a mirror may hold, each with the kinds it may have
TreePaths ==
    { Path(<<"/", "a">>), Path(<<"/", "a", "/", "b">>), Path(<<"/", "a", "/", "b", "/", "f">>),
      Path(<<"/", "a", "/", "b", "c">>), Path(<<"/", "a", "/", "c">>),
      Path(<<"/", "a", ".bundle">>), Path(<<"/", "x">>) }

KindsAt(p) ==
    IF p \in {Path(<<"/", "a">>), Path(<<"/", "a", "/", "c">>), Path(<<"/", "x">>)}
        THEN {"absent", "file", "dir", "link"}
    ELSE IF p = Path(<<"/", "a", "/", "b">>) THEN {"absent", "file", "dir"}
    ELSE {"absent", "file"}

\* the path of the directory that holds p
Parent(p) ==
    LET cut == CHOOSE i \in 1..Len(p) : p[i] = "/" /\ \A j \in (i + 1)..Len(p) : p[j] # "/"
    IN  SubSeq(p, 1, cut - 1)

Trees ==
    LET shapes == {k \in [TreePaths -> {"absent", "file", "dir", "link"}] :
                      \A p \in TreePaths :
                          /\ k[p] \in KindsAt(p)
                          /\ k[p] # "absent" /\ Parent(p) # root_dir => k[Parent(p)] = "dir"}
    IN  { [p \in {q \in TreePaths : k[q] # "absent"} \cup {root_dir} |->
              IF p = root_dir THEN Node("dir", NoHeads) ELSE Node(k[p], NoHeads)]
          : k \in shapes }

CleanInit ==
    /\ entries \in Configurations
    /\ mirror \in Trees \cup {<<>>}
    /\ removed = {}
    /\ clean_mode = "none"
    /\ today \in {738916}
    /\ bundle_dir = <<>>
    /\ to_delete = {}
    /\ ret_mode = "none"
    /\ sources = <<>>
    /\ git_call = NoCall
    /\ NoRun

CleanNext ==
    \E dry_run \in BOOLEAN :
        cleanup_removed_entries(dry_run) /\ UNCHANGED <<retVars, gitVars, mainVars>>

SpecCleanup == CleanInit /\ [][CleanNext]_vars

(***************************************************************************)
(* _sync_git_repo                                                          *)
(***************************************************************************)
\* _parse_refs(output): a line of one word or none is dropped, any other
\* gives (first word, rest of the line)
_parse_refs(output) ==
    {<<output[i][1], Tail(output[i])>> : i \in {j \in 1..Len(output) : Len(output[j]) >= 2}}

\* parsed refs of a command result, None when the command failed
RefsOf(result) == IF result.ok THEN Some(_parse_refs(result.out)) ELSE None

\* the None tests forgotten: two unreadable sides compare equal
UnchangedNoneEqual(repo_refs, bundle_refs) == repo_refs = bundle_refs

\* the test of line 180
Unchanged(repo_refs, bundle_refs) ==
    repo_refs.some /\ bundle_refs.some /\ repo_refs.v = bundle_refs.v

\* os.path.isfile(dst)
IsFile(tree, p) == p \in DOMAIN tree /\ tree[p].kind = "file"

RECURSIVE MakeDirs(_, _)
\* os.makedirs(p, exist_ok=True)
MakeDirs(tree, p) ==
    IF p \in DOMAIN tree THEN tree
    ELSE LET above == IF p = root_dir THEN tree ELSE MakeDirs(tree, Parent(p))
         IN  [q \in DOMAIN above \cup {p} |->
                 IF q = p THEN Node("dir", NoHeads) ELSE above[q]]

\* the tree with file p written
PutFile(tree, p, data) ==
    [q \in DOMAIN tree \cup {p} |-> IF q = p THEN Node("file", data) ELSE tree[q]]

\* _sync_git_repo(entry, backup_repo, dry_run).  create_ok and verify_ok are the
\* exit statuses of `git bundle create` and `git bundle verify`, written is
\* what the created file holds.  `git bundle create` writes to a lock file
\* and renames it over dst when it succeeds, so a failed create leaves dst alone.
_sync_git_repo(entry, dry_run, create_ok, verify_ok, written) ==
    LET src         == sources[entry.path]
        dst         == dest_path(entry.path) \o <<".bundle">>
        repo_refs   == RefsOf(src.refs)
        bundle_refs == IF IsFile(mirror, dst) THEN RefsOf(mirror[dst].data) ELSE None
        call(outcome, failed) ==
            [dry_run |-> dry_run, outcome |-> outcome, failed |-> failed,
             repo_refs |-> repo_refs, bundle_refs |-> bundle_refs]
        early(outcome, failed) ==
            [dry_run |-> dry_run, outcome |-> outcome, failed |-> failed,
             repo_refs |-> None, bundle_refs |-> None]
        made        == MakeDirs(mirror, Parent(dst))
    IN  /\ UNCHANGED <<entries, sources>>
        /\ IF src.kind \notin {"dir", "repo"}
           THEN git_call' = early("not_found", TRUE) /\ UNCHANGED mirror
           ELSE IF src.kind # "repo"
           THEN git_call' = early("not_git", TRUE) /\ UNCHANGED mirror
           ELSE IF Unchanged(repo_refs, bundle_refs)
           THEN git_call' = call("unchanged", FALSE) /\ UNCHANGED mirror
           ELSE IF dry_run
           THEN git_call' = call("would_bundle", FALSE) /\ UNCHANGED mirror
           ELSE IF ~create_ok
           THEN git_call' = call("bundle_failed", TRUE) /\ mirror' = made
           ELSE IF ~verify_ok
           THEN /\ git_call' = call("verify_failed", TRUE)
                /\ mirror' = RmTree(PutFile(made, dst, written), dst)
           ELSE /\ git_call' = call("verified", FALSE)
                /\ mirror' = PutFile(made, dst, written)

(***************************************************************************)
(* The change detector on its own: one git-repo entry, any state of its    *)
(* source and of its last artifact.                                        *)
(***************************************************************************)
\* what `git show-ref --head` and `git bundle list-heads` may print
RefOutputs ==
    { << <<"s1", "HEAD">>, <<"s1", "refs/heads/main">> >>,
      << <<"s1", "refs/heads/main">>, <<"s1", "HEAD">> >>,
      << <<"s1", "HEAD">>, <<"warning">>, <<"s1", "refs/heads/main">> >>,
      << <<"s2", "HEAD">>, <<"s2", "refs/heads/main">> >>,
      <<>> }

RefResults == {NoHeads} \cup {[ok |-> TRUE, out |-> o] : o \in RefOutputs}

GitEntries ==
    { [path |-> <<"/", "a">>, type |-> "git-repo", pre |-> FALSE],
      [path |-> <<"/", "a", "/", "b">>, type |-> "git-repo", pre |-> FALSE] }

SourceStates ==
    {[kind |-> k, refs |-> NoHeads] : k \in {"absent", "file", "dir"}}
        \cup {[kind |-> "repo", refs |-> r] : r \in RefResults}

GitInit ==
    /\ \E e \in GitEntries :
         /\ entries = <<e>>
         /\ sources \in [{e.path} -> SourceStates]
         /\ \/ mirror = <<>>
            \/ mirror = MakeDirs(<<>>, root_dir)
            \/ \E r \in RefResults :
                 mirror = PutFile(MakeDirs(<<>>, Parent(EntryDest(e))), EntryDest(e), r)
    /\ git_call = NoCall
    /\ removed = {}
    /\ clean_mode = "none"
    /\ today \in {738916}
    /\ bundle_dir = <<>>
    /\ to_delete = {}
    /\ ret_mode = "none"
    /\ NoRun

GitNext ==
    \E dry_run, create_ok, verify_ok \in BOOLEAN : \E written \in RefResults :
        /\ _sync_git_repo(entries[1], dry_run, create_ok, verify_ok, written)
        /\ UNCHANGED <<retVars, cleanVars, mainVars>>

SpecGitRepo == GitInit /\ [][GitNext]_vars

(***************************************************************************)
(* sync_entries: one entry that is no git repository                       *)
(***************************************************************************)
\* the directory p of the tree made a copy of a source directory, which
\* holds one file f: rsync -a --delete
RsyncDir(tree, p) ==
    LET kept == {q \in DOMAIN tree : ~StartsWith(q, p \o <<"/">>)}
        file == p \o <<"/", "f">>
    IN  [q \in kept \cup {file} |-> IF q = file THEN Node("file", NoHeads) ELSE tree[q]]

\* the body of the loop of sync_entries for a plain entry: the tree it
\* leaves and whether the entry is added to failed
SyncPlain(tree, entry, dry_run, rsync_ok) ==
    LET src    == sources[entry.path]
        dst    == dest_path(entry.path)
        is_dir == src.kind \in {"dir", "repo"}
        made   == IF is_dir
                  THEN MakeDirs(MakeDirs(tree, Parent(dst)), RStrip(dst))
                  ELSE MakeDirs(tree, Parent(dst))
    IN  IF src.kind = "absent" THEN [tree |-> tree, failed |-> TRUE]
        ELSE IF dry_run THEN [tree |-> tree, failed |-> FALSE]
        ELSE IF ~rsync_ok THEN [tree |-> made, failed |-> TRUE]
        ELSE IF is_dir THEN [tree |-> RsyncDir(made, RStrip(dst)), failed |-> FALSE]
        ELSE [tree |-> PutFile(made, dst, NoHeads), failed |-> FALSE]

(***************************************************************************)
(* The snapshot scheduler                                                  *)
(***************************************************************************)
MAX_CONSECUTIVE_SKIPPED == 10

\* the last n elements of a sequence: seq[-n:]
LastN(seq, n) == IF Len(seq) <= n THEN seq ELSE SubSeq(seq, Len(seq) - n + 1, Len(seq))

\* one skip-marker too many
ShouldForceAfterEleven(dir) ==
    LET matching == Sorted({f \in GlobAll(dir) : BUNDLE_RE(f)})
        recent   == LastN(matching, MAX_CONSECUTIVE_SKIPPED + 1)
    IN  /\ bundle_dir_set /\ DOMAIN dir # {}
        /\ Len(recent) >= MAX_CONSECUTIVE_SKIPPED + 1
        /\ \A i \in 1..Len(recent) : EndsWith(recent[i], <<".", "skipped">>)

\* one skip-marker too few
ShouldForceAfterNine(dir) ==
    LET matching == Sorted({f \in GlobAll(dir) : BUNDLE_RE(f)})
        recent   == LastN(matching, MAX_CONSECUTIVE_SKIPPED - 1)
    IN  /\ bundle_dir_set /\ DOMAIN dir # {}
        /\ Len(recent) >= MAX_CONSECUTIVE_SKIPPED - 1
        /\ \A i \in 1..Len(recent) : EndsWith(recent[i], <<".", "skipped">>)

\* should_force_bundle(bundle_dir).  A directory that does not exist and an
\* empty one give the same answer, so the model does not tell them apart.
should_force_bundle(dir) ==
    LET matching == Sorted({f \in GlobAll(dir) : BUNDLE_RE(f)})
        recent   == LastN(matching, MAX_CONSECUTIVE_SKIPPED)
    IN  /\ bundle_dir_set /\ DOMAIN dir # {}
        /\ Len(recent) >= MAX_CONSECUTIVE_SKIPPED
        /\ \A i \in 1..Len(recent) : EndsWith(recent[i], <<".", "skipped">>)

\* the loop of lines 440-443 over the lines of `git bundle list-heads`:
\* the first word of the first line whose second word is HEAD, or "none"
EmbeddedHead(out) ==
    LET hits == {i \in 1..Len(out) : Len(out[i]) >= 2 /\ out[i][2] = "HEAD"}
    IN  IF hits = {} THEN "none"
        ELSE out[CHOOSE i \in hits : \A j \in hits : i <= j][1]

\* has_unbundled_commits(backup_repo, bundle_dir)
has_unbundled_commits(dir) ==
    LET bundles     == Sorted(GlobBundles(dir))
        last_bundle == bundles[Len(bundles)]
    IN  IF head = "none" THEN TRUE
        ELSE IF ~bundle_dir_set \/ DOMAIN dir = {} THEN TRUE
        ELSE IF bundles = <<>> THEN TRUE
        ELSE IF ~dir[last_bundle].ok THEN TRUE
        ELSE IF EmbeddedHead(dir[last_bundle].out) = "none" THEN TRUE
        ELSE head # EmbeddedHead(dir[last_bundle].out)

(***************************************************************************)
(* main                                                                    *)
(***************************************************************************)
\* the entries before the first one that failed
ActiveBeforeFailure(failed) ==
    LET bad == {i \in 1..Len(entries) : entries[i].path \in failed}
    IN  IF bad = {} THEN entries
        ELSE SubSeq(entries, 1, (CHOOSE i \in bad : \A j \in bad : i <= j) - 1)

\* active_entries
Active(failed) == SelectSeq(entries, LAMBDA e : e.path \notin failed)

\* every way out of main ends in failure
ExitAlwaysOne(code) == pc' = "done" /\ exit_code' = "1"

Exit(code) == pc' = "done" /\ exit_code' = code

\* main up to the try block.  how: the backup repo is missing, the
\* configuration is missing, --notify-test is given, or the run goes on.
\* The day may have changed since the last run.
StartRun(how, dry_run, commit_only, days) ==
    /\ pc \in {"idle", "done"}
    /\ runs' = runs + 1
    /\ visited' = {}
    /\ today' = today + days
    /\ args' = [dry_run |-> dry_run, commit_only |-> commit_only]
    /\ idx' = 1
    /\ failed_paths' = {}
    /\ sync_failed' = {}
    /\ decision' = [unbundled |-> FALSE, force |-> FALSE]
    /\ clean_mode' = "none" /\ ret_mode' = "none"
    /\ removed' = {} /\ to_delete' = {}
    /\ git_call' = NoCall
    /\ IF how \in {"no_repo", "no_config"} THEN Exit("1")
       ELSE IF how = "notify_test" THEN Exit("0")
       ELSE /\ pc' = IF entries = <<>> THEN "cleanup" ELSE "pre_sync"
            /\ exit_code' = "none"
    /\ UNCHANGED <<bundle_dir, entries, mirror, sources, bundle_dir_set, head>>

\* a run, of the few that the model follows
Start(how, dry_run, commit_only, days) ==
    runs < MaxRuns /\ StartRun(how, dry_run, commit_only, days)

\* run_pre_sync_commands: the body of its loop for the entry at hand
PreSync(outcome) ==
    /\ pc = "pre_sync"
    /\ LET entry  == entries[idx]
           failed == IF entry.pre /\ ~args.dry_run /\ outcome # "ok"
                     THEN failed_paths \cup {entry.path}
                     ELSE failed_paths
       IN  /\ failed_paths' = failed
           /\ visited' = visited \cup {<<"pre", entry.path>>}
           /\ IF idx < Len(entries) THEN idx' = idx + 1 /\ pc' = pc
              ELSE idx' = 1 /\ pc' = IF Active(failed) = <<>> THEN "cleanup" ELSE "sync"
    /\ UNCHANGED <<retVars, cleanVars, treeVars, gitVars, args, bundle_dir_set, head,
                   sync_failed, decision, exit_code, runs>>

\* sync_entries: the body of its loop for the entry at hand
Sync(create_ok, verify_ok, rsync_ok) ==
    /\ pc = "sync"
    /\ LET entry == Active(failed_paths)[idx]
       IN  /\ visited' = visited \cup {<<"sync", entry.path>>}
           /\ IF entry.type = "git-repo"
              THEN /\ _sync_git_repo(entry, args.dry_run, create_ok, verify_ok,
                                     sources[entry.path].refs)
                   /\ sync_failed' = IF git_call'.failed
                                     THEN sync_failed \cup {entry.path} ELSE sync_failed
              ELSE LET done == SyncPlain(mirror, entry, args.dry_run, rsync_ok)
                   IN  /\ mirror' = done.tree
                       /\ sync_failed' = IF done.failed
                                         THEN sync_failed \cup {entry.path} ELSE sync_failed
                       /\ UNCHANGED <<entries, sources, git_call>>
    /\ IF idx < Len(Active(failed_paths)) THEN idx' = idx + 1 /\ pc' = pc
       ELSE idx' = 1 /\ pc' = "cleanup"
    /\ UNCHANGED <<retVars, cleanVars, args, bundle_dir_set, head, failed_paths, decision,
                   exit_code, runs>>

\* reconciliation against active_entries instead of entries
CleanupActiveOnly ==
    /\ pc = "cleanup"
    /\ removed' = Removed(mirror, Active(failed_paths))
    /\ mirror' = AfterCleanup(mirror, Active(failed_paths), args.dry_run)
    /\ clean_mode' = ModeAfter(clean_mode, args.dry_run)
    /\ pc' = "commit"
    /\ UNCHANGED <<retVars, gitVars, entries, args, bundle_dir_set, head, idx, failed_paths,
                   sync_failed, decision, exit_code, runs, visited>>

\* cleanup_removed_entries(entries, backup_repo, dry_run)
Cleanup ==
    /\ pc = "cleanup"
    /\ cleanup_removed_entries(args.dry_run)
    /\ pc' = "commit"
    /\ UNCHANGED <<retVars, gitVars, args, bundle_dir_set, head, idx, failed_paths,
                   sync_failed, decision, exit_code, runs, visited>>

\* git_auto_commit(backup_repo, dry_run), and the return of a commit-only run
Commit(outcome, new_head) ==
    /\ pc = "commit"
    /\ IF args.dry_run \/ outcome = "no_changes"
       THEN /\ head' = head
            /\ IF args.commit_only THEN Exit("0") ELSE pc' = "decide" /\ exit_code' = exit_code
       ELSE IF outcome \in {"add_failed", "commit_failed"}
       THEN head' = head /\ Exit("1")
       ELSE /\ new_head # head
            /\ head' = new_head
            /\ IF args.commit_only THEN Exit("0") ELSE pc' = "decide" /\ exit_code' = exit_code
    /\ UNCHANGED <<retVars, cleanVars, treeVars, gitVars, args, bundle_dir_set, idx,
                   failed_paths, sync_failed, decision, runs, visited>>

\* lines 603-606: unbundled, force, and the branch taken
Decide ==
    /\ pc = "decide"
    /\ LET unbundled == has_unbundled_commits(bundle_dir)
           force     == ~unbundled /\ should_force_bundle(bundle_dir)
       IN  /\ decision' = [unbundled |-> unbundled, force |-> force]
           /\ pc' = IF unbundled \/ force THEN "bundle" ELSE "skip"
    /\ UNCHANGED <<retVars, cleanVars, treeVars, gitVars, args, bundle_dir_set, head, idx,
                   failed_paths, sync_failed, exit_code, runs, visited>>

\* what `git bundle list-heads` prints of a bundle of the backup repo
RepoBundle == IF head = "none" THEN [ok |-> TRUE, out |-> <<>>] ELSE HeadsOf(head)

\* create_bundle(backup_repo, bundle_dir, dry_run)
Bundle(create_ok, verify_ok) ==
    /\ pc = "bundle"
    /\ IF args.dry_run
       THEN /\ UNCHANGED bundle_dir
            /\ IF bundle_dir_set THEN pc' = "retention" /\ exit_code' = exit_code ELSE Exit("0")
       ELSE IF ~create_ok \/ ~verify_ok
       THEN UNCHANGED bundle_dir /\ Exit("1")
       ELSE IF bundle_dir_set
       THEN /\ bundle_dir' = WriteFile(bundle_dir, BundleFileName(today), RepoBundle)
            /\ pc' = "retention" /\ exit_code' = exit_code
       ELSE UNCHANGED bundle_dir /\ Exit("0")
    /\ UNCHANGED <<today, to_delete, ret_mode, cleanVars, treeVars, gitVars, args,
                   bundle_dir_set, head, idx, failed_paths, sync_failed, decision, runs, visited>>

\* retention_cleanup(bundle_dir, dry_run) and the end of the run; an
\* exception of os.remove reaches `except Exception` of main (lines 638-642)
Retention ==
    /\ pc = "retention"
    /\ retention_cleanup(args.dry_run)
    /\ IF ret_mode' = "raised" THEN Exit("1") ELSE Exit("0")
    /\ UNCHANGED <<cleanVars, treeVars, gitVars, args, bundle_dir_set, head, idx,
                   failed_paths, sync_failed, decision, runs, visited>>

\* retention after the skip-marker too
SkipThenRetention ==
    /\ pc = "skip"
    /\ bundle_dir' = IF bundle_dir_set /\ ~args.dry_run
                     THEN WriteFile(bundle_dir, SkippedFileName(today), NoHeads)
                     ELSE bundle_dir
    /\ pc' = "retention" /\ exit_code' = exit_code
    /\ UNCHANGED <<today, to_delete, ret_mode, cleanVars, treeVars, gitVars, args,
                   bundle_dir_set, head, idx, failed_paths, sync_failed, decision, runs,
                   visited>>

\* create_skipped_marker(bundle_dir, dry_run), and the end of the run
Skip ==
    /\ pc = "skip"
    /\ bundle_dir' = IF bundle_dir_set /\ ~args.dry_run
                     THEN WriteFile(bundle_dir, SkippedFileName(today), NoHeads)
                     ELSE bundle_dir
    /\ Exit("0")
    /\ UNCHANGED <<today, to_delete, ret_mode, cleanVars, treeVars, gitVars, args,
                   bundle_dir_set, head, idx, failed_paths, sync_failed, decision, runs, visited>>

(***************************************************************************)
(* Whole runs: a configuration of two entries, a mirror with a stale file, *)
(* and an artifact directory as earlier runs may have left it.             *)
(***************************************************************************)
MainEntries ==
    << [path |-> <<"/", "a">>, type |-> "plain", pre |-> TRUE],
       [path |-> <<"/", "x">>, type |-> "git-repo", pre |-> FALSE] >>

MainMirror ==
    PutFile(PutFile(MakeDirs(<<>>, Path(<<"/", "a">>)),
                    Path(<<"/", "a", "/", "c">>), NoHeads),
            Path(<<"/", "x">>), NoHeads)

\* how many skip-markers the directory holds at the start
InitSkips == {0, 8, 9, 10}

\* a bundle of head h followed by a skip-marker for each of the n days
\* before day now
SkippedRun(now, h, n) ==
    [f \in {BundleFileName(now - n - 1)} \cup {SkippedFileName(now - k) : k \in 1..n} |->
        IF EndsWith(f, <<".", "bundle">>) THEN HeadsOf(h) ELSE NoHeads]

StrayBundle == <<"work-backup-", "old", ".", "bundle">>

\* yesterday's snapshot and two snapshots of more than a year ago
ExpiredAges == {400, 401}

OldDir(now) == DirOf({BundleFileName(now - a) : a \in {1} \cup ExpiredAges})

\* yesterday's snapshot and what a run earlier on day now has written
SameDayDirs(now) ==
    { WriteFile(SkippedRun(now, "h1", 0), SkippedFileName(now), NoHeads),
      WriteFile(SkippedRun(now, "h1", 0), BundleFileName(now), HeadsOf("h1")) }

MainInit ==
    /\ today \in {738916}
    /\ entries = MainEntries
    /\ mirror = MainMirror
    /\ sources \in { [p \in {<<"/", "a">>, <<"/", "x">>} |->
                        IF p = <<"/", "a">> THEN [kind |-> "dir", refs |-> NoHeads] ELSE x]
                     : x \in {[kind |-> "absent", refs |-> NoHeads],
                              [kind |-> "repo", refs |-> HeadsOf("s1")]} }
    /\ \/ bundle_dir_set = FALSE /\ bundle_dir = <<>>
       \/ bundle_dir_set = TRUE /\ bundle_dir = <<>>
       \/ /\ bundle_dir_set = TRUE
          /\ \E n \in InitSkips : \E stray \in {"none"} \cup Heads :
               bundle_dir = IF stray = "none" THEN SkippedRun(today, "h1", n)
                            ELSE WriteFile(SkippedRun(today, "h1", n), StrayBundle, HeadsOf(stray))
       \/ bundle_dir_set = TRUE /\ bundle_dir = OldDir(today)
       \/ bundle_dir_set = TRUE /\ bundle_dir \in SameDayDirs(today)
    /\ head \in {"none"} \cup Heads
    /\ pc = "idle"
    /\ args = [dry_run |-> FALSE, commit_only |-> FALSE]
    /\ idx = 1
    /\ failed_paths = {}
    /\ sync_failed = {}
    /\ decision = [unbundled |-> FALSE, force |-> FALSE]
    /\ exit_code = "none"
    /\ runs = 0
    /\ visited = {}
    /\ to_delete = {}
    /\ ret_mode = "none"
    /\ removed = {}
    /\ clean_mode = "none"
    /\ git_call = NoCall

MainNext ==
    \/ \E how \in {"run", "no_repo", "no_config", "notify_test"} :
       \E dry_run, commit_only \in BOOLEAN : \E days \in {0, 1} :
           Start(how, dry_run, commit_only, days)
    \/ \E outcome \in {"ok", "failed", "timeout"} : PreSync(outcome)
    \/ \E create_ok, verify_ok, rsync_ok \in BOOLEAN : Sync(create_ok, verify_ok, rsync_ok)
    \/ Cleanup
    \/ \E outcome \in {"no_changes", "committed", "add_failed", "commit_failed"} :
       \E new_head \in Heads : Commit(outcome, new_head)
    \/ Decide
    \/ \E create_ok, verify_ok \in BOOLEAN : Bundle(create_ok, verify_ok)
    \/ Retention
    \/ Skip

SpecMain == MainInit /\ [][MainNext]_vars

(***************************************************************************)
(* A long sequence of full-mode runs with no new commits: no entries, an   *)
(* artifact directory that starts with yesterday's snapshot, a run on      *)
(* every day or several on one day, none of them a dry run (a dry run      *)
(* writes nothing).                                                        *)
(***************************************************************************)
\* a full-mode run of the sequence, days days after the one before
ScheduledStart(days) ==
    runs < MaxScheduledRuns /\ StartRun("run", FALSE, FALSE, days)

ScheduleInit ==
    /\ today \in {738916}
    /\ entries = <<>>
    /\ mirror = <<>>
    /\ sources = <<>>
    /\ bundle_dir_set = TRUE
    /\ bundle_dir \in {SkippedRun(today, "h1", n) : n \in {0, 8}}
    /\ head \in Heads
    /\ pc = "idle"
    /\ args = [dry_run |-> FALSE, commit_only |-> FALSE]
    /\ idx = 1
    /\ failed_paths = {}
    /\ sync_failed = {}
    /\ decision = [unbundled |-> FALSE, force |-> FALSE]
    /\ exit_code = "none"
    /\ runs = 0
    /\ visited = {}
    /\ to_delete = {}
    /\ ret_mode = "none"
    /\ removed = {}
    /\ clean_mode = "none"
    /\ git_call = NoCall

\* the commit step finds nothing to commit
ScheduleNext ==
    \/ \E days \in {0, 1} : ScheduledStart(days)
    \/ Cleanup
    \/ Commit("no_changes", head)
    \/ Decide
    \/ \E create_ok, verify_ok \in BOOLEAN : Bundle(create_ok, verify_ok)
    \/ Retention
    \/ Skip

SpecSchedule == ScheduleInit /\ [][ScheduleNext]_vars

(***************************************************************************)
(* Properties of retention.                                                *)
(***************************************************************************)
\* the dated artifacts of a directory, their dates and ages
Artifacts(dir) == {f \in DOMAIN dir : BUNDLE_RE(f)}

ArtifactDate(f) == FromIsoFormat(Group1(f))

ArtifactAge(f) == today - ArtifactDate(f)

\* what a retention step leaves of the directory it found: the files still
\* there, and in dry-run mode the files not reported as "would delete"
Retained == IF ret_mode' = "dry" THEN DOMAIN bundle_dir \ to_delete' ELSE DOMAIN bundle_dir'

\* a retention step that ran to its end
RetentionStep == ret_mode' \notin {"none", "raised"}

\* C3: retention keeps every artifact that is at most 30 days old, however
\* many of them there are and whatever else the directory holds.
C3_DailyAllRetained ==
    [][RetentionStep =>
        \A f \in Artifacts(bundle_dir) : ArtifactAge(f) <= 30 => f \in Retained]_vars

\* 31 artifacts of 31 consecutive days ending today have been through
\* a retention that deletes, and all 31 are there
C3_Witness ==
    /\ ret_mode = "real"
    /\ Cardinality({f \in Artifacts(bundle_dir) : ArtifactAge(f) \in 0..30}) = 31

WeeklyBucket(dir, key) ==
    {f \in Artifacts(dir) : ArtifactAge(f) \in 31..89 /\ IsoCalendar(ArtifactDate(f)) = key}

MonthlyBucket(dir, key) ==
    {f \in Artifacts(dir) :
        /\ ArtifactAge(f) \in 90..364
        /\ <<Ord2Ymd(ArtifactDate(f))[1], Ord2Ymd(ArtifactDate(f))[2]>> = key}

\* the buckets of a directory that hold something
Buckets(dir) ==
    {WeeklyBucket(dir, IsoCalendar(ArtifactDate(f))) :
        f \in {g \in Artifacts(dir) : ArtifactAge(g) \in 31..89}}
    \cup
    {MonthlyBucket(dir, <<Ord2Ymd(ArtifactDate(f))[1], Ord2Ymd(ArtifactDate(f))[2]>>) :
        f \in {g \in Artifacts(dir) : ArtifactAge(g) \in 90..364}}

\* C4: of each weekly (ISO year, ISO week) bucket and each monthly (year,
\* month) bucket that holds something, retention leaves exactly one artifact,
\* and no artifact of the bucket has a later date than it.
C4_LatestOfBucketSurvives ==
    [][RetentionStep =>
        \A B \in Buckets(bundle_dir) :
            /\ Cardinality(B \cap Retained) = 1
            /\ \A s \in B \cap Retained : \A f \in B : ArtifactDate(f) <= ArtifactDate(s)]_vars

\* a retention that deletes has removed an artifact of a weekly or monthly
\* bucket in favour of a later one of the same bucket
C4_Witness ==
    /\ ret_mode = "real"
    /\ \E f \in to_delete : \E s \in Artifacts(bundle_dir) :
          /\ ArtifactDate(f) < ArtifactDate(s)
          /\ \/ /\ ArtifactAge(f) \in 31..89 /\ ArtifactAge(s) \in 31..89
                /\ IsoCalendar(ArtifactDate(f)) = IsoCalendar(ArtifactDate(s))
             \/ /\ ArtifactAge(f) \in 90..364 /\ ArtifactAge(s) \in 90..364
                /\ Ord2Ymd(ArtifactDate(f))[1] = Ord2Ymd(ArtifactDate(s))[1]
                /\ Ord2Ymd(ArtifactDate(f))[2] = Ord2Ymd(ArtifactDate(s))[2]

\* C5: a retention run on the directory that a deleting retention run left,
\* on the same day, finds nothing to delete and leaves the directory as it is.
C5_RetentionIdempotent ==
    [][(ret_mode \in {"real", "real_again"} /\ RetentionStep)
          => (to_delete' = {} /\ bundle_dir' = bundle_dir)]_vars

\* two deleting retention runs in a row, on a directory that still holds a
\* weekly or monthly artifact
C5_Witness ==
    /\ ret_mode = "real_again"
    /\ \E f \in Artifacts(bundle_dir) : ArtifactAge(f) \in 31..364

\* C10: retention deletes every artifact that is 365 days old or older (in
\* dry-run mode: reports it as to be deleted), and the ages 30, 31, 89, 90,
\* 364, 365 are daily, weekly, weekly, monthly, monthly, expired.
C10_ExpiredNeverKept ==
    [][RetentionStep =>
        /\ \A f \in Artifacts(bundle_dir) : ArtifactAge(f) >= 365 => f \notin Retained
        /\ <<Tier(30), Tier(31), Tier(89), Tier(90), Tier(364), Tier(365)>>
             = <<"daily", "weekly", "weekly", "monthly", "monthly", "expired">>]_vars

\* a deleting retention run has deleted an artifact exactly 365 days old and
\* kept one 364 days old
C10_Witness ==
    /\ ret_mode = "real"
    /\ \E f \in to_delete : ArtifactAge(f) = 365
    /\ \E f \in Artifacts(bundle_dir) : ArtifactAge(f) = 364

(***************************************************************************)
(* Properties of reconciliation.                                           *)
(***************************************************************************)
Destinations == {EntryDest(entries[i]) : i \in 1..Len(entries)}

\* p is the destination of an entry (a destination may be written with a
\* trailing separator)
IsDestination(p) == \E d \in Destinations : p = d \/ p = RStrip(d)

\* p followed by a separator begins a destination
IsAncestorPath(p) == \E d \in Destinations : StartsWith(d, p \o <<"/">>)

\* p lies beneath a destination
IsBeneathDestination(p) == \E d \in Destinations : StartsWith(p, RStrip(d) \o <<"/">>)

UnderRoot == DOMAIN mirror \ {root_dir}

\* C1, as claimed: after a reconciliation that deletes, every path under the
\* mirror root is the destination of an entry or a directory that is an
\* ancestor of one.
C1_AsClaimed ==
    clean_mode \in {"real", "real_again"} =>
        \A p \in UnderRoot :
            IsDestination(p) \/ (mirror[p].kind = "dir" /\ IsAncestorPath(p))

\* C1, amended: after a reconciliation that deletes, every path under the
\* mirror root is the destination of an entry, lies beneath one, or is an
\* ancestor path of one (whatever kind of file sits there).
C1_OnlyCoveredPathsRemain ==
    clean_mode \in {"real", "real_again"} =>
        \A p \in UnderRoot :
            IsDestination(p) \/ IsBeneathDestination(p) \/ IsAncestorPath(p)

\* a reconciliation has deleted something and has left a path beneath a
\* destination and an ancestor of a destination
C1_Witness ==
    /\ clean_mode = "real"
    /\ removed # {}
    /\ \E p \in UnderRoot : IsBeneathDestination(p) /\ ~IsDestination(p)
    /\ \E p \in UnderRoot : IsAncestorPath(p)

\* C2: a reconciliation that deletes, run right after another one on the
\* same tree with the same entries, removes nothing and records nothing.
C2_CleanupIdempotent ==
    [][(clean_mode \in {"real", "real_again"} /\ clean_mode' = "real_again")
          => (removed' = {} /\ mirror' = mirror)]_vars

\* two deleting reconciliations in a row, the first of which had something
\* to delete from this tree
C2_Witness ==
    /\ clean_mode = "real_again"
    /\ Cardinality(UnderRoot) >= 2
    /\ \E p \in TreePaths \ DOMAIN mirror : ~IsDestination(p)

(***************************************************************************)
(* Properties of the change detector.                                      *)
(***************************************************************************)
TheEntry == entries[1]

TheDst == dest_path(TheEntry.path) \o <<".bundle">>

\* the live RefSet and the last artifact's RefSet are both obtainable and
\* hold the same (objectId, refName) pairs
SameRefSets ==
    /\ sources[TheEntry.path].refs.ok
    /\ TheDst \in DOMAIN mirror /\ mirror[TheDst].kind = "file" /\ mirror[TheDst].data.ok
    /\ _parse_refs(sources[TheEntry.path].refs.out) = _parse_refs(mirror[TheDst].data.out)

\* the call of this step ran `git bundle create`
CaptureAttempted == git_call'.outcome \in {"bundle_failed", "verify_failed", "verified"}

\* C6: when the source is a git repository and the run is no dry run, a
\* capture is attempted exactly when the two RefSets are not both obtainable
\* and equal; when they are, the call reports success and touches nothing.
C6_CaptureIffRefsDiffer ==
    [][(sources[TheEntry.path].kind = "repo" /\ ~git_call'.dry_run /\ git_call'.outcome # "none")
          => /\ CaptureAttempted <=> ~SameRefSets
             /\ SameRefSets => (git_call'.outcome = "unchanged" /\ ~git_call'.failed
                                /\ mirror' = mirror)]_vars

\* a call has found the refs unchanged although the two commands printed
\* different text, and has left the artifact in place
C6_Witness ==
    /\ git_call.outcome = "unchanged" /\ ~git_call.dry_run
    /\ TheDst \in DOMAIN mirror
    /\ sources[TheEntry.path].refs.out # mirror[TheDst].data.out

\* the artifact captured earlier for the entry is there and readable
HasArtifact ==
    /\ IsFile(mirror, TheDst) /\ mirror[TheDst].data.ok
    /\ _parse_refs(mirror[TheDst].data.out) # {}

\* C7, as claimed: when the capture is produced and its verification fails,
\* the call reports failure, the new artifact is gone, and the artifact that
\* was there before the call is still there, unchanged.
C7_AsClaimed ==
    [][(git_call'.outcome = "verify_failed" /\ sources[TheEntry.path].refs.ok)
          => /\ git_call'.failed
             /\ HasArtifact => (TheDst \in DOMAIN mirror' /\ mirror'[TheDst] = mirror[TheDst])
             /\ TheDst \notin DOMAIN mirror => TheDst \notin DOMAIN mirror']_vars

(***************************************************************************)
(* Properties of the snapshot scheduler.                                   *)
(***************************************************************************)
\* the artifacts that are skip-markers, and those that are snapshots
SkipMarkers(dir) == {f \in Artifacts(dir) : EndsWith(f, <<".", "skipped">>)}

Snapshots(dir) == {f \in Artifacts(dir) : EndsWith(f, <<".", "bundle">>)}

\* the directory holds at least n artifacts and the n most recent ones are
\* all skip-markers: n skip-markers none of which is older than any
\* artifact besides them
TrailingSkips(dir, n) ==
    \E T \in SUBSET SkipMarkers(dir) :
        /\ Cardinality(T) = n
        /\ \A f \in T : \A g \in Artifacts(dir) \ T : ArtifactDate(g) <= ArtifactDate(f)

\* the step is the decision of lines 603-606
DecisionStep == pc = "decide" /\ pc' # "decide"

LatestSnapshot(dir) ==
    CHOOSE f \in Snapshots(dir) : \A g \in Snapshots(dir) : ArtifactDate(g) <= ArtifactDate(f)

\* rule A asks for a snapshot: there is none yet, or the head cannot be
\* read, or it differs from the head embedded in the most recent snapshot
RuleARequires ==
    \/ Snapshots(bundle_dir) = {}
    \/ head = "none"
    \/ head # EmbeddedHead(bundle_dir[LatestSnapshot(bundle_dir)].out)

\* C9, as claimed: when rule A asks for a snapshot the run takes the
\* snapshot branch, and never writes a skip-marker.
C9_AsClaimed ==
    [][/\ (DecisionStep /\ RuleARequires) => pc' = "bundle"
       /\ (pc = "decide" /\ RuleARequires) => pc' # "skip"]_vars

(***************************************************************************)
(* Properties of retention and skip-markers.                               *)
(***************************************************************************)
\* the snapshots of a weekly or monthly bucket
SnapshotsOf(B) == {f \in B : EndsWith(f, <<".", "bundle">>)}

\* C11, as claimed: retention never deletes a skip-marker, and a skip-marker
\* takes no part in a weekly or monthly bucket: of each bucket that holds a
\* snapshot, the latest snapshot is retained.
C11_AsClaimed ==
    [][RetentionStep =>
        /\ \A f \in SkipMarkers(bundle_dir) : f \in Retained
        /\ \A B \in Buckets(bundle_dir) :
              \A s \in SnapshotsOf(B) :
                  (\A g \in SnapshotsOf(B) : ArtifactDate(g) <= ArtifactDate(s))
                      => s \in Retained]_vars

\* C12, as claimed: when os.remove fails for one artifact, retention goes on
\* to delete the others and the run does not end with a nonzero exit status.
C12_AsClaimed ==
    [][(pc = "retention" /\ ret_mode' = "raised")
          => /\ Cardinality(to_delete' \cap DOMAIN bundle_dir') <= 1
             /\ exit_code' # "1"]_vars

(***************************************************************************)
(* Properties of whole runs.                                               *)
(***************************************************************************)
\* the step ends a run with a nonzero exit status
AbortStep == exit_code' = "1" /\ (runs' # runs \/ pc # "done")

\* the step is the start of a run (main up to the try block)
StartStep == runs' # runs

C14_EveryEntryVisited ==
    pc = "cleanup" =>
        \A i \in 1..Len(entries) :
            /\ <<"pre", entries[i].path>> \in visited
            /\ <<"sync", entries[i].path>> \in visited <=> entries[i].path \notin failed_paths

\* the first entry has failed in sync_entries (source gone or copy failed)
\* and the entry after it has been taken up all the same
C14_Witness ==
    /\ pc = "cleanup"
    /\ entries[1].path \in sync_failed
    /\ <<"sync", entries[2].path>> \in visited

(***************************************************************************)
(* Properties of the mapping of sources to destinations.                   *)
(***************************************************************************)
\* C15, as claimed: two entries of a configuration whose source paths are
\* absolute and differ have different destinations in the set expected (a
\* git-repo entry with its suffix ".bundle" next to a plain entry included).
C15_AsClaimed ==
    \A i, j \in 1..Len(entries) :
        (/\ entries[i].path # entries[j].path
         /\ Head(entries[i].path) = "/" /\ Head(entries[j].path) = "/")
            => EntryDest(entries[i]) # EntryDest(entries[j])

(***************************************************************************)
(* More properties of reconciliation.                                      *)
(***************************************************************************)
\* the paths that a reconciliation that deletes takes out of the tree and
\* whose directory it leaves: what it removes, without what goes with a
\* removed directory
TopmostDeleted(tree, es) ==
    LET after == AfterCleanup(tree, es, FALSE)
    IN  {p \in DOMAIN tree \ DOMAIN after : Parent(p) \in DOMAIN after}

\* C16: a reconciliation in dry-run mode leaves the tree as it is, and the
\* list it returns names exactly what a reconciliation that deletes would
\* take out of the same tree.
C16_DryRunOnlyReports ==
    [][clean_mode' = "dry" =>
          /\ mirror' = mirror
          /\ removed' = TopmostDeleted(mirror, entries)]_vars

\* a reconciliation in dry-run mode has reported paths, among them a
\* directory that is not empty, and all of it is still there
C16_Witness ==
    /\ clean_mode = "dry"
    /\ removed # {} /\ removed \subseteq DOMAIN mirror
    /\ \E p \in removed : \E q \in DOMAIN mirror : StartsWith(q, p \o <<"/">>)

\* the paths a step takes out of the tree
Gone == DOMAIN mirror \ DOMAIN mirror'

\* the scenario: the one destination R/a/b in a tree that holds R/a/b, R/a/c
\* and R/x
ScenarioEntries == <<[path |-> <<"/", "a", "/", "b">>, type |-> "plain", pre |-> FALSE]>>

ScenarioPaths ==
    {root_dir, Path(<<"/", "a">>), Path(<<"/", "a", "/", "b">>),
     Path(<<"/", "a", "/", "c">>), Path(<<"/", "x">>)}

\* C17: a reconciliation that deletes takes out of the tree no destination,
\* no directory that is an ancestor of one and nothing beneath one, and it
\* takes out every path that is none of these (a path that only shares a
\* string prefix with a destination included); in the scenario it takes out
\* exactly R/a/c and R/x.
C17_OnlyUncoveredDeleted ==
    [][clean_mode' \in {"real", "real_again"} =>
          /\ \A p \in UnderRoot :
                p \in Gone <=>
                    ~(IsDestination(p) \/ IsAncestorPath(p) \/ IsBeneathDestination(p))
          /\ (entries = ScenarioEntries /\ DOMAIN mirror = ScenarioPaths)
                => Gone = {Path(<<"/", "a", "/", "c">>), Path(<<"/", "x">>)}]_vars

\* the scenario has been through a reconciliation that deletes
C17_Witness ==
    /\ clean_mode = "real"
    /\ entries = ScenarioEntries
    /\ removed = {Path(<<"/", "a", "/", "c">>), Path(<<"/", "x">>)}
    /\ DOMAIN mirror = ScenarioPaths \ removed

(***************************************************************************)
(* Properties of runs with entries that fail.                              *)
(***************************************************************************)
\* p is the destination of entry e or lies beneath it
AtOrBeneath(p, e) ==
    \/ p = EntryDest(e) \/ p = RStrip(EntryDest(e))
    \/ StartsWith(p, RStrip(EntryDest(e)) \o <<"/">>)

\* C18: the reconciliation of a run neither deletes nor reports the
\* destination, or anything beneath the destination, of an entry whose
\* preparation, copy or capture has failed in this run.
C18_FailedEntriesStayCovered ==
    [][pc = "cleanup" =>
          \A i \in 1..Len(entries) :
              entries[i].path \in failed_paths \cup sync_failed =>
                  \A p \in DOMAIN mirror :
                      AtOrBeneath(p, entries[i]) => (p \in DOMAIN mirror' /\ p \notin removed')]_vars

\* the preparation of the first entry has failed, the reconciliation of the
\* run has deleted something, and the copy of the entry is still there with
\* a file in it
C18_Witness ==
    /\ pc = "commit" /\ clean_mode = "real"
    /\ entries[1].path \in failed_paths
    /\ removed # {}
    /\ \E p \in DOMAIN mirror :
          p # EntryDest(entries[1]) /\ AtOrBeneath(p, entries[1])

(***************************************************************************)
(* Properties of the artifact directory.                                   *)
(***************************************************************************)
\* the directory without the files whose names do not match the pattern
DatedOnly(dir) == [f \in Artifacts(dir) |-> dir[f]]

\* C19, as claimed: a file whose name does not match the pattern of dated
\* artifacts is neither deleted nor reported by retention, and the decision
\* of the scheduler (rule A and the forcing rule) is the one it would take
\* if the file were not there.
C19_AsClaimed ==
    [][/\ pc = "retention" =>
            \A f \in DOMAIN bundle_dir \ Artifacts(bundle_dir) :
                f \in DOMAIN bundle_dir' /\ f \notin to_delete'
       /\ DecisionStep =>
            /\ should_force_bundle(bundle_dir) = should_force_bundle(DatedOnly(bundle_dir))
            /\ has_unbundled_commits(bundle_dir) = has_unbundled_commits(DatedOnly(bundle_dir))]_vars

\* the artifacts of day d in a directory
ArtifactsOfDay(dir, d) == {f \in Artifacts(dir) : ArtifactDate(f) = d}

\* the step writes the artifact of a full-mode run that is no dry run
\* and has an artifact directory: the snapshot or the skip-marker
ArtifactStep ==
    /\ ~args.dry_run /\ bundle_dir_set
    /\ \/ pc = "skip" /\ pc' = "done"
       \/ pc = "bundle" /\ pc' = "retention"

\* C20, as claimed: when a run has written its artifact, the directory holds
\* exactly one artifact of the current date, whatever runs there were on
\* that date before.
C20_AsClaimed ==
    [][ArtifactStep => Cardinality(ArtifactsOfDay(bundle_dir', today)) = 1]_vars

(***************************************************************************)
(* Properties of sequences of runs.                                        *)
(***************************************************************************)
\* the skip-markers that no snapshot of the directory is more recent than
SkipsSinceSnapshot(dir) ==
    {f \in SkipMarkers(dir) : \A g \in Snapshots(dir) : ArtifactDate(g) <= ArtifactDate(f)}

\* C21: through any sequence of full-mode runs with no new commits the
\* directory never holds more than 10 skip-markers since its most recent
\* snapshot, and the run that finds 10 of them decides for a snapshot, which
\* it writes for the current date if the bundle is made.
C21_StalenessBounded ==
    /\ [](Cardinality(SkipsSinceSnapshot(bundle_dir)) <= 10)
    /\ [][/\ (DecisionStep /\ Cardinality(SkipsSinceSnapshot(bundle_dir)) = 10)
               => pc' = "bundle"
          /\ (pc = "bundle" /\ pc' = "retention" /\ ~args.dry_run)
               => /\ BundleFileName(today) \in DOMAIN bundle_dir'
                  /\ Cardinality(SkipsSinceSnapshot(bundle_dir')) <= 1]_vars

\* after eleven runs or more, ten of which have written a skip-marker each,
\* a run has been forced and has written the snapshot of its day
C21_Witness ==
    /\ runs >= 11 /\ pc = "done" /\ decision.force /\ ~args.dry_run
    /\ BundleFileName(today) \in DOMAIN bundle_dir
    /\ Cardinality(SkipMarkers(bundle_dir) \cup to_delete) >= 10

\* the place of a phase in the order of main
PhaseRank(phase) ==
    CASE phase = "idle" -> 0
      [] phase = "pre_sync" -> 1
      [] phase = "sync" -> 2
      [] phase = "cleanup" -> 3
      [] phase = "commit" -> 4
      [] phase = "decide" -> 5
      [] phase \in {"bundle", "skip"} -> 6
      [] phase = "retention" -> 7
      [] phase = "done" -> 8

\* C22: within a run the phases follow each other in the order sync,
\* reconciliation, commit, decision, retention; retention is entered only
\* from the snapshot branch of the decision, after the snapshot is written
\* if the run is no dry run; only the retention step of a run that is no dry
\* run takes a file out of the artifact directory, so a run that ends with a
\* skip-marker and a commit-only run delete none; and retention neither
\* deletes nor reports the snapshot of the current date.
C22_RetentionAfterSnapshot ==
    [][/\ ~StartStep => PhaseRank(pc') >= PhaseRank(pc)
       /\ (pc' = "retention" /\ pc # "retention")
            => /\ pc = "bundle" /\ (decision.unbundled \/ decision.force)
               /\ ~args.commit_only
               /\ ~args.dry_run => BundleFileName(today) \in DOMAIN bundle_dir'
       /\ ~(DOMAIN bundle_dir \subseteq DOMAIN bundle_dir')
            => (pc = "retention" /\ ~args.dry_run)
       /\ (pc = "retention" /\ BundleFileName(today) \in DOMAIN bundle_dir)
            => /\ BundleFileName(today) \in DOMAIN bundle_dir'
               /\ BundleFileName(today) \notin to_delete']_vars

\* a run has made its snapshot, its retention has deleted older artifacts,
\* and the snapshot is there
C22_Witness ==
    /\ pc = "done" /\ ret_mode = "real" /\ exit_code = "0"
    /\ to_delete # {}
    /\ BundleFileName(today) \in DOMAIN bundle_dir

====
